---- MODULE Spec2Model ----
(***************************************************************************)
(* w-shingling fingerprints, bottom-k sketches and Jaccard similarity of   *)
(* zakiindra/w-shingles (run.py, benchmark.py, document-similarity.py).    *)
(*                                                                         *)
(* A text is a sequence of one-character strings.  A fingerprint is a set  *)
(* of naturals.  A float returned by calculate_similarity is kept as the   *)
(* exact fraction <<"float", num, den>> in lowest terms.                   *)
(***************************************************************************)
EXTENDS Integers, Sequences, FiniteSets, TLC

VARIABLES
    text,          \* generate_fingerprint: the text argument of the run
    w,             \* generate_fingerprint: the shingle width argument
    pyhashseed,    \* the hash seed of the worker process that executes the call
    fp_first,      \* the first call on (text, w): <<seed of its process, result>>
    fp_last,       \* the latest call on (text, w): <<seed of its process, result>>
    fp_other,      \* what the latest call on another width returned
    fingerprint,   \* select_fingerprint: the fingerprint argument
    lam1,          \* select_fingerprint: the smaller sketch size
    lam2,          \* select_fingerprint: the larger sketch size
    sk1,           \* select_fingerprint(fingerprint, lam1)
    sk2,           \* select_fingerprint(fingerprint, lam2)
    sk21,          \* select_fingerprint(sk2, lam1)
    first,         \* calculate_similarity: the first set
    second,        \* calculate_similarity: the second set
    sim_ab,        \* run.py: calculate_similarity(first, second)
    sim_ba,        \* run.py: calculate_similarity(second, first)
    dsim_ab,       \* document-similarity.py: calculate_similarity(first, second)
    dsim_ba,       \* document-similarity.py: calculate_similarity(second, first)
    corpus,        \* CORPUS_DIR: city -> (version key -> text of the file)
    unreadable,    \* the documents <<city, version>> whose open() raises
    cfg_w_vals,    \* W_VALS
    cfg_lambda_vals, \* LAMBDA_VALS
    cfg_batch_size,  \* BATCH_SIZE
    num_workers,   \* main: num_workers = cpu_count()
    pc,            \* main: where the main process is
    city_batches,  \* main: city_batches
    bi,            \* main: the number of the batch of the for loop, from 1
    ci,            \* main: the position in the batch of the city being read
    batch_docs,    \* main: batch_docs, the items <<<<city, version>>, text>> in order
    cache,         \* main: batch_fingerprints_cache, w -> (key -> fingerprint)
    wi,            \* main: the position in W_VALS of the width of the for loop
    task_status,   \* the pool: "pending", "running" or "done" of each task
    task_results,  \* the pool: the list of results that starmap or map returns
    all_results,   \* main: all_results, city -> city_results
    skipped_cities, \* main: skipped_cities
    worker_cache,  \* the pool: the cache argument of each process_city task after it ran
    document,      \* document-similarity.py generate_fingerprint: the document argument
    window_size,   \* document-similarity.py generate_fingerprint: the window_size argument
    dfp_doc,       \* document-similarity.py: generate_fingerprint(document, window_size)
    dfp_run        \* run.py: generate_fingerprint(document, window_size)

vars == <<text, w, pyhashseed, fp_first, fp_last, fp_other,
          fingerprint, lam1, lam2, sk1, sk2, sk21,
          first, second, sim_ab, sim_ba, dsim_ab, dsim_ba,
          corpus, unreadable, cfg_w_vals, cfg_lambda_vals, cfg_batch_size,
          num_workers, pc, city_batches, bi, ci, batch_docs, cache, wi,
          task_status, task_results, all_results, skipped_cities, worker_cache,
          document, window_size, dfp_doc, dfp_run>>

fpVars == <<text, w, pyhashseed, fp_first, fp_last, fp_other>>
selVars == <<fingerprint, lam1, lam2, sk1, sk2, sk21>>
simVars == <<first, second, sim_ab, sim_ba, dsim_ab, dsim_ba>>
envVars == <<corpus, unreadable, cfg_w_vals, cfg_lambda_vals, cfg_batch_size,
             num_workers>>
docVars == <<document, window_size, dfp_doc, dfp_run>>
mainVars == <<pc, city_batches, bi, ci, batch_docs, cache, wi,
              task_status, task_results, all_results, skipped_cities, worker_cache>>

(***************************************************************************)
(* Bounds of the model.                                                    *)
(***************************************************************************)
MaxTextLen == 5
MaxW == 3
MaxSeed == 1
MaxElem == 5
MaxLambda == 6

(***************************************************************************)
(* Values.                                                                 *)
(***************************************************************************)
None == <<>>
Some(x) == <<x>>

Min(a, b) == IF a <= b THEN a ELSE b
Max(a, b) == IF a >= b THEN a ELSE b

Whitespace == {" "}
Alphabet == {"a", "b", " "}

\* the example text of the specification, "a b c a b c"
ExampleText == <<"a", " ", "b", " ", "c", " ", "a", " ", "b", " ", "c">>

Texts == (UNION {[1..k -> Alphabet] : k \in 0..MaxTextLen}) \cup {ExampleText}
W_VALS == 1..MaxW

(***************************************************************************)
(* Python built-ins used by the core functions.                            *)
(***************************************************************************)
\* seq[lo:hi] for 0 <= lo, with Python's clamping of hi to len(seq)
PySlice(seq, lo, hi) ==
    LET h == Min(hi, Len(seq))
    IN  IF lo >= h THEN <<>> ELSE SubSeq(seq, lo + 1, h)

\* seq[:n]; a negative n counts from the end
PyPrefix(seq, n) ==
    IF n >= 0 THEN PySlice(seq, 0, n) ELSE PySlice(seq, 0, Max(Len(seq) + n, 0))

\* str.split() without argument: the maximal runs of non-whitespace characters
RECURSIVE SplitFrom(_, _, _, _)
SplitFrom(s, i, cur, acc) ==
    IF i > Len(s)
    THEN IF cur = <<>> THEN acc ELSE Append(acc, cur)
    ELSE IF s[i] \in Whitespace
         THEN SplitFrom(s, i + 1, <<>>, IF cur = <<>> THEN acc ELSE Append(acc, cur))
         ELSE SplitFrom(s, i + 1, Append(cur, s[i]), acc)

split(s) == SplitFrom(s, 1, <<>>, <<>>)

\* str.split(" "): the text is cut at every space; empty tokens are kept
RECURSIVE SplitSpaceFrom(_, _, _, _)
SplitSpaceFrom(s, i, cur, acc) ==
    IF i > Len(s) THEN Append(acc, cur)
    ELSE IF s[i] = " "
         THEN SplitSpaceFrom(s, i + 1, <<>>, Append(acc, cur))
         ELSE SplitSpaceFrom(s, i + 1, Append(cur, s[i]), acc)

split_space(s) == SplitSpaceFrom(s, 1, <<>>, <<>>)

\* " ".join(toks)
RECURSIVE join(_)
join(toks) ==
    IF toks = <<>> THEN <<>>
    ELSE IF Len(toks) = 1 THEN toks[1]
    ELSE toks[1] \o <<" ">> \o join(Tail(toks))

(***************************************************************************)
(* int(hashlib.md5(shingle.encode("UTF-8")).hexdigest(), 16).  MD5 is      *)
(* modelled by an order-sensitive digest of the bytes that is injective    *)
(* on strings of fewer than 8 characters and does not preserve their       *)
(* order: a positional encoding followed by an affine map modulo a prime.  *)
(***************************************************************************)
HashModulus == 390647
HashMultiplier == 5003
HashIncrement == 977

Byte(c) == CASE c = "a" -> 1 [] c = "b" -> 2 [] c = "c" -> 3 [] c = " " -> 4

RECURSIVE Encode(_, _)
Encode(s, h) ==
    IF s = <<>> THEN h
    ELSE Encode(Tail(s), (h * 5 + Byte(Head(s))) % HashModulus)

Md5Int(s) == (Encode(s, 0) * HashMultiplier + HashIncrement) % HashModulus

\* the builtin hash(), salted with the seed of the executing process
salted_hash(shingle) == (Md5Int(shingle) + pyhashseed) % HashModulus

\* run.py line 29: the hash of a shingle does not read the process's seed
hashed_shingle(shingle) == Md5Int(shingle)

(***************************************************************************)
(* generate_fingerprint (run.py 23-31, benchmark.py 29-38).                *)
(***************************************************************************)
\* for i in range(stop): fingerprint.add(hash(" ".join(tokens[i:i + w])))
RECURSIVE ShingleLoop(_, _, _, _, _)
ShingleLoop(tokens, width, i, stop, fp) ==
    IF i >= stop THEN fp
    ELSE ShingleLoop(tokens, width, i + 1, stop,
                     fp \cup {hashed_shingle(join(PySlice(tokens, i, i + width)))})

\* the loop runs over every start index and hashes the truncated trailing windows
generate_fingerprint_trailing(t, width) ==
    LET tokens == split(t)
    IN  ShingleLoop(tokens, width, 0, Len(tokens), {})

\* the loop stops one window early
generate_fingerprint_short(t, width) ==
    LET tokens == split(t)
    IN  IF Len(tokens) < width THEN {}
        ELSE ShingleLoop(tokens, width, 0, Len(tokens) - width, {})

generate_fingerprint(t, width) ==
    LET tokens == split(t)
    IN  IF Len(tokens) < width THEN {}
        ELSE ShingleLoop(tokens, width, 0, Len(tokens) - width + 1, {})

(***************************************************************************)
(* select_fingerprint (run.py 33-35, benchmark.py 40-43,                   *)
(* document-similarity.py 46-49).                                          *)
(***************************************************************************)
\* sorted(list(s)): the elements of s in ascending order
RECURSIVE sorted(_)
sorted(s) ==
    IF s = {} THEN <<>>
    ELSE LET m == CHOOSE x \in s : \A y \in s : x <= y
         IN  <<m>> \o sorted(s \ {m})

\* set(seq)
set(seq) == {seq[i] : i \in 1..Len(seq)}

\* sorted(..., reverse=True)
reversed(seq) == [i \in 1..Len(seq) |-> seq[Len(seq) + 1 - i]]

\* the sentinel test is missing: -1 is sliced like any other n
select_fingerprint_nosentinel(fp, n) == set(PyPrefix(sorted(fp), n))

\* the slice is [n:] where [:n] is meant
select_fingerprint_dropfirst(fp, n) ==
    IF n = -1 THEN fp ELSE set(PySlice(sorted(fp), Max(n, 0), Cardinality(fp)))

\* the slice is one element too long
select_fingerprint_offbyone(fp, n) ==
    IF n = -1 THEN fp ELSE set(PyPrefix(sorted(fp), n + 1))

\* the sort is descending: the n largest are kept
select_fingerprint_largest(fp, n) ==
    IF n = -1 THEN fp ELSE set(PyPrefix(reversed(sorted(fp)), n))

select_fingerprint(fp, n) ==
    IF n = -1 THEN fp ELSE set(PyPrefix(sorted(fp), n))

(***************************************************************************)
(* calculate_similarity (run.py 18-21, benchmark.py 22-27,                 *)
(* document-similarity.py 22-29).                                          *)
(***************************************************************************)
RECURSIVE gcd(_, _)
gcd(a, b) == IF b = 0 THEN a ELSE gcd(b, a % b)

\* the float literals 1.0 and 0.0
One == <<"float", 1, 1>>
Zero == <<"float", 0, 1>>

\* a / b on ints: the float of the exact quotient, or ZeroDivisionError
PyTrueDiv(a, b) ==
    IF b = 0 THEN <<"ZeroDivisionError">>
    ELSE <<"float", a \div gcd(a, b), b \div gcd(a, b)>>

\* the denominator is len(first) + len(second), not the size of the union
calculate_similarity_sum(a, b) ==
    IF a = {} /\ b = {} THEN One
    ELSE IF a = {} \/ b = {} THEN Zero
    ELSE PyTrueDiv(Cardinality(a \cap b), Cardinality(a) + Cardinality(b))

\* the denominator is len(first): containment of first in second
calculate_similarity_containment(a, b) ==
    IF a = {} /\ b = {} THEN One
    ELSE IF a = {} \/ b = {} THEN Zero
    ELSE PyTrueDiv(Cardinality(a \cap b), Cardinality(a))

\* the tests for empty sets are missing
calculate_similarity_unguarded(a, b) ==
    PyTrueDiv(Cardinality(a \cap b), Cardinality(a \cup b))

\* run.py 18-21 and, line for line the same, benchmark.py 22-27
calculate_similarity(a, b) ==
    IF a = {} /\ b = {} THEN One
    ELSE IF a = {} \/ b = {} THEN Zero
    ELSE PyTrueDiv(Cardinality(a \cap b), Cardinality(a \cup b))

\* document-similarity.py 22-29: only the second set is tested alone
calculate_similarity_docsim(a, b) ==
    IF Cardinality(a) = 0 /\ Cardinality(b) = 0 THEN One
    ELSE IF Cardinality(b) = 0 THEN Zero
    ELSE PyTrueDiv(Cardinality(a \cap b), Cardinality(a \cup b))

\* document-similarity.py 32-43: every start index of range(0, len(tokens))
\* is hashed, with the slice clamped at the end of the tokens
generate_fingerprint_docsim(doc, width) ==
    LET tokens == split_space(doc)
    IN  ShingleLoop(tokens, width, 0, Len(tokens), {})

IdleDoc ==
    /\ document = <<>>
    /\ window_size = 1
    /\ dfp_doc = None
    /\ dfp_run = None

IdleSim ==
    /\ first = {}
    /\ second = {}
    /\ sim_ab = None
    /\ sim_ba = None
    /\ dsim_ab = None
    /\ dsim_ba = None

\* main is not run: an empty corpus directory and no step taken
IdleMain ==
    /\ corpus = <<>>
    /\ unreadable = {}
    /\ cfg_w_vals = <<>>
    /\ cfg_lambda_vals = <<>>
    /\ cfg_batch_size = 1
    /\ num_workers = 1
    /\ pc = "idle"
    /\ city_batches = <<>>
    /\ bi = 0
    /\ ci = 0
    /\ batch_docs = <<>>
    /\ cache = <<>>
    /\ wi = 0
    /\ task_status = <<>>
    /\ task_results = <<>>
    /\ all_results = <<>>
    /\ skipped_cities = <<>>
    /\ worker_cache = <<>>

IdleFp ==
    /\ text = <<>>
    /\ w = 1
    /\ pyhashseed = 0
    /\ fp_first = None
    /\ fp_last = None
    /\ fp_other = None

IdleSel ==
    /\ fingerprint = {}
    /\ lam1 = 0
    /\ lam2 = 0
    /\ sk1 = None
    /\ sk2 = None
    /\ sk21 = None

(***************************************************************************)
(* Calls of generate_fingerprint by the worker processes of a pool         *)
(* (run.py 150-152: pool.starmap(generate_fingerprint, tasks)).            *)
(***************************************************************************)
InitFp ==
    /\ text \in Texts
    /\ w \in W_VALS
    /\ pyhashseed \in 0..MaxSeed
    /\ fp_first = None
    /\ fp_last = None
    /\ fp_other = None
    /\ IdleSel
    /\ IdleSim
    /\ IdleMain
    /\ IdleDoc

\* a worker executes the task (text, w)
CallFingerprint ==
    /\ fp_last' = <<pyhashseed, generate_fingerprint(text, w)>>
    /\ fp_first' = IF fp_first = None THEN fp_last' ELSE fp_first
    /\ UNCHANGED <<text, w, pyhashseed, fp_other>>
    /\ UNCHANGED <<selVars, simVars, envVars, mainVars, docVars>>

\* a worker executes the task of the same text for another width
CallOtherWidth ==
    /\ \E w2 \in W_VALS \ {w} :
          fp_other' = Some(generate_fingerprint(text, w2))
    /\ UNCHANGED <<text, w, pyhashseed, fp_first, fp_last>>
    /\ UNCHANGED <<selVars, simVars, envVars, mainVars, docVars>>

\* the pool hands the next task to a worker process with another hash seed
SwitchWorker ==
    /\ \E s \in (0..MaxSeed) \ {pyhashseed} : pyhashseed' = s
    /\ UNCHANGED <<text, w, fp_first, fp_last, fp_other>>
    /\ UNCHANGED <<selVars, simVars, envVars, mainVars, docVars>>

NextFp == CallFingerprint \/ CallOtherWidth \/ SwitchWorker

SpecFp == InitFp /\ [][NextFp]_vars

(***************************************************************************)
(* Calls of select_fingerprint on one fingerprint with two sketch sizes    *)
(* (run.py 109 and 116).                                                   *)
(***************************************************************************)
Elems == 1..MaxElem
Infinity == -1
LambdaDomain == {Infinity} \cup (0..MaxLambda)

InitSel ==
    /\ fingerprint \in SUBSET Elems
    /\ lam1 \in LambdaDomain
    /\ lam2 \in LambdaDomain
    /\ sk1 = None
    /\ sk2 = None
    /\ sk21 = None
    /\ IdleFp
    /\ IdleSim
    /\ IdleMain
    /\ IdleDoc

\* sk1 = select_fingerprint(fingerprint, lam1)
SelectFirst ==
    /\ sk1' = Some(select_fingerprint(fingerprint, lam1))
    /\ UNCHANGED <<fingerprint, lam1, lam2, sk2, sk21>>
    /\ UNCHANGED <<fpVars, simVars, envVars, mainVars, docVars>>

\* sk2 = select_fingerprint(fingerprint, lam2)
SelectSecond ==
    /\ sk2' = Some(select_fingerprint(fingerprint, lam2))
    /\ UNCHANGED <<fingerprint, lam1, lam2, sk1, sk21>>
    /\ UNCHANGED <<fpVars, simVars, envVars, mainVars, docVars>>

\* sk21 = select_fingerprint(sk2, lam1)
Reselect ==
    /\ sk2 # None
    /\ sk21' = Some(select_fingerprint(sk2[1], lam1))
    /\ UNCHANGED <<fingerprint, lam1, lam2, sk1, sk2>>
    /\ UNCHANGED <<fpVars, simVars, envVars, mainVars, docVars>>

NextSel == SelectFirst \/ SelectSecond \/ Reselect

SpecSel == InitSel /\ [][NextSel]_vars

(***************************************************************************)
(* Calls of calculate_similarity on two sets, in both argument orders, by  *)
(* the implementation of run.py and benchmark.py (run.py 117) and by that  *)
(* of document-similarity.py.                                              *)
(***************************************************************************)
InitSim ==
    /\ first \in SUBSET Elems
    /\ second \in SUBSET Elems
    /\ sim_ab = None
    /\ sim_ba = None
    /\ dsim_ab = None
    /\ dsim_ba = None
    /\ IdleFp
    /\ IdleSel
    /\ IdleMain
    /\ IdleDoc

CallSimilarity ==
    /\ sim_ab' = Some(calculate_similarity(first, second))
    /\ UNCHANGED <<first, second, sim_ba, dsim_ab, dsim_ba>>
    /\ UNCHANGED <<fpVars, selVars, envVars, mainVars, docVars>>

CallSimilaritySwapped ==
    /\ sim_ba' = Some(calculate_similarity(second, first))
    /\ UNCHANGED <<first, second, sim_ab, dsim_ab, dsim_ba>>
    /\ UNCHANGED <<fpVars, selVars, envVars, mainVars, docVars>>

CallSimilarityDocsim ==
    /\ dsim_ab' = Some(calculate_similarity_docsim(first, second))
    /\ UNCHANGED <<first, second, sim_ab, sim_ba, dsim_ba>>
    /\ UNCHANGED <<fpVars, selVars, envVars, mainVars, docVars>>

CallSimilarityDocsimSwapped ==
    /\ dsim_ba' = Some(calculate_similarity_docsim(second, first))
    /\ UNCHANGED <<first, second, sim_ab, sim_ba, dsim_ab>>
    /\ UNCHANGED <<fpVars, selVars, envVars, mainVars, docVars>>

NextSim ==
    \/ CallSimilarity
    \/ CallSimilaritySwapped
    \/ CallSimilarityDocsim
    \/ CallSimilarityDocsimSwapped

SpecSim == InitSim /\ [][NextSim]_vars

(***************************************************************************)
(* The two generate_fingerprint, of document-similarity.py and of run.py,  *)
(* called on the same document and window size.                            *)
(***************************************************************************)
InitDoc ==
    /\ document \in Texts
    /\ window_size \in W_VALS
    /\ dfp_doc = None
    /\ dfp_run = None
    /\ IdleFp
    /\ IdleSel
    /\ IdleSim
    /\ IdleMain

\* document-similarity.py: generate_fingerprint(document, window_size)
CallFingerprintDocsim ==
    /\ dfp_doc' = Some(generate_fingerprint_docsim(document, window_size))
    /\ UNCHANGED <<document, window_size, dfp_run>>
    /\ UNCHANGED <<fpVars, selVars, simVars, envVars, mainVars>>

\* run.py: generate_fingerprint(document, window_size)
CallFingerprintRun ==
    /\ dfp_run' = Some(generate_fingerprint(document, window_size))
    /\ UNCHANGED <<document, window_size, dfp_doc>>
    /\ UNCHANGED <<fpVars, selVars, simVars, envVars, mainVars>>

NextDoc == CallFingerprintDocsim \/ CallFingerprintRun

SpecDoc == InitDoc /\ [][NextDoc]_vars

(***************************************************************************)
(* main and process_city of run.py: the batched run over the corpus.       *)
(* A city is named by its position in the listing of CORPUS_DIR.           *)
(***************************************************************************)
NumCities == 2
MaxDocs == 4
MaxWorkers == 2

\* the version keys that the pattern of read_documents (run.py 58) extracts
Versions == {"C", "C-0", "C-1"}

\* the order in which glob lists the files of a city directory
GlobOrder == <<"C", "C-0", "C-1">>

\* the texts of the files: "a b a", "a b b" and "b a"
TextABA == <<"a", " ", "b", " ", "a">>
TextABB == <<"a", " ", "b", " ", "b">>
TextBA == <<"b", " ", "a">>

\* the text of the file of a version of a city, when the file exists: in the
\* odd cities offset 0 repeats the current text and offset 1 differs from it,
\* in the even cities offset 0 differs from it and offset 1 repeats offset 0
FileText(c, v) ==
    IF c % 2 = 1
    THEN (IF v = "C-1" THEN TextABB ELSE TextABA)
    ELSE (IF v = "C" THEN TextABB ELSE TextBA)

RECURSIVE NumFiles(_, _)
NumFiles(present, n) ==
    IF n = 0 THEN 0 ELSE Cardinality(present[n]) + NumFiles(present, n - 1)

\* the corpora of NumCities city directories with at most maxdocs files
Corpora(maxdocs) ==
    {[c \in 1..NumCities |-> [v \in present[c] |-> FileText(c, v)]] :
        present \in {pr \in [1..NumCities -> SUBSET Versions] :
                        NumFiles(pr, NumCities) <= maxdocs}}

\* the documents of a corpus
DocKeys(cp) == {k \in (DOMAIN cp) \X Versions : k[2] \in DOMAIN cp[k[1]]}

\* what a call returns, or the exception it raises
Ok(x) == <<"ok", x>>
Raise(kind) == <<"raise", kind>>
IsOk(r) == r[1] = "ok"

\* Python's None where a version key is expected
NoKey == "None"

\* list(d.keys()) of the dict that read_documents builds
DictKeys(d) == SelectSeq(GlobOrder, LAMBDA v : v \in DOMAIN d)

\* run.py 38-63: the dict version key -> text of a city directory; open()
\* raises for an unreadable file and nothing catches it
read_documents(c) ==
    IF \E v \in DOMAIN corpus[c] : <<c, v>> \in unreadable
    THEN Raise("OSError")
    ELSE Ok(corpus[c])

\* list(range(0, stop, step)) for stop >= 0 and step # 0
RangeFromZero(stop, step) ==
    IF step < 0 \/ stop <= 0 THEN <<>>
    ELSE [k \in 1..((stop + step - 1) \div step) |-> (k - 1) * step]

\* the last partial batch is dropped
MakeBatches_dropremainder(city_dirs, size) ==
    LET starts == RangeFromZero(Len(city_dirs) - size + 1, size)
    IN  [k \in 1..Len(starts) |-> PySlice(city_dirs, starts[k], starts[k] + size)]

\* run.py 131: [city_dirs[i:i + BATCH_SIZE] for i in range(0, len(city_dirs), BATCH_SIZE)]
MakeBatches(city_dirs, size) ==
    LET starts == RangeFromZero(Len(city_dirs), size)
    IN  [k \in 1..Len(starts) |-> PySlice(city_dirs, starts[k], starts[k] + size)]

\* 'C-0' is preferred to 'C'
current_key_offsetfirst(city_docs) ==
    IF "C-0" \in DOMAIN city_docs THEN "C-0"
    ELSE IF "C" \in DOMAIN city_docs THEN "C"
    ELSE NoKey

\* run.py 94-98
current_key(city_docs) ==
    IF "C" \in DOMAIN city_docs THEN "C"
    ELSE IF "C-0" \in DOMAIN city_docs THEN "C-0"
    ELSE NoKey

\* the reference version is not skipped
OtherVersions_all(city_docs, cur) == DOMAIN city_docs

\* run.py 112-113: the versions the inner loop does not skip
OtherVersions(city_docs, cur) == (DOMAIN city_docs) \ {cur}

\* the reference sketch is always the full fingerprint
ReferenceSketch_full(fp, lam) == fp

\* run.py 109: current_fps[lam]
ReferenceSketch(fp, lam) == select_fingerprint(fp, lam)

\* the reference fingerprint is looked up once, before the loop over the
\* widths, at the first width
CityResults_firstwidth(c, city_docs, cur, w_vals, full_cache) ==
    LET current_fp_full == full_cache[w_vals[1]][<<c, cur>>]
        current_fps == [lam \in set(cfg_lambda_vals) |->
                           ReferenceSketch(current_fp_full, lam)]
    IN  [wd \in set(w_vals) |->
            [lam \in set(cfg_lambda_vals) |->
                [v \in OtherVersions(city_docs, cur) |->
                    calculate_similarity(
                        current_fps[lam],
                        select_fingerprint(full_cache[wd][<<c, v>>], lam))]]]

\* run.py 104-118: for each width the sketches current_fps of the reference
\* are built once (run.py 108-109) and used against every other version
CityResults(c, city_docs, cur, w_vals, full_cache) ==
    [wd \in set(w_vals) |->
        LET current_fp_full == full_cache[wd][<<c, cur>>]
            current_fps == [lam \in set(cfg_lambda_vals) |->
                               ReferenceSketch(current_fp_full, lam)]
        IN  [lam \in set(cfg_lambda_vals) |->
                [v \in OtherVersions(city_docs, cur) |->
                    calculate_similarity(
                        current_fps[lam],
                        select_fingerprint(full_cache[wd][<<c, v>>], lam))]]]

\* a lookup full_fingerprints_cache[w][doc_id] of process_city finds no entry
MissingKey(c, city_docs, w_vals, full_cache) ==
    \E wd \in set(w_vals) :
        \/ wd \notin DOMAIN full_cache
        \/ \E v \in DOMAIN city_docs : <<c, v>> \notin DOMAIN full_cache[wd]

\* a city without reference version is not skipped: the lookup of its
\* reference fingerprint raises
process_city_nocheck(c, w_vals, full_cache) ==
    LET r == read_documents(c)
    IN  IF ~IsOk(r) THEN r
        ELSE LET city_docs == r[2]
                 cur == current_key(city_docs)
             IN  IF cur = NoKey \/ (w_vals # <<>> /\ MissingKey(c, city_docs, w_vals, full_cache))
                 THEN Raise("KeyError")
                 ELSE Ok(<<c, Some(CityResults(c, city_docs, cur, w_vals,
                                               full_cache))>>)

\* run.py 87-121: (city_name, None) or (city_name, city_results)
process_city(c, w_vals, full_cache) ==
    LET r == read_documents(c)
    IN  IF ~IsOk(r) THEN r
        ELSE LET city_docs == r[2]
                 cur == current_key(city_docs)
             IN  IF cur = NoKey THEN Ok(<<c, None>>)
                 ELSE IF w_vals # <<>> /\ MissingKey(c, city_docs, w_vals, full_cache)
                      THEN Raise("KeyError")
                      ELSE Ok(<<c, Some(CityResults(c, city_docs, cur, w_vals,
                                                    full_cache))>>)

\* the union is built in place: first |= second
FirstAfterSimilarity_update(A, B) == A \cup B

\* run.py 18-21: intersection() and union() build new sets; the set passed as
\* first is left as it was
FirstAfterSimilarity(A, B) == A

\* the reference fingerprint of a width after it was compared, as the sketch of
\* the sentinel, with the versions vs[k..]: select_fingerprint returns the
\* cached set itself for n = -1 (run.py 34), not a copy
RECURSIVE AfterComparisons(_, _, _, _, _)
AfterComparisons(fp, c, vs, k, keyed) ==
    IF k > Len(vs) THEN fp
    ELSE AfterComparisons(FirstAfterSimilarity(fp, keyed[<<c, vs[k]>>]),
                          c, vs, k + 1, keyed)

\* run.py 104-118: the cache argument of process_city when the task is done:
\* the sketches of the other sizes are new sets (run.py 35), the fingerprints
\* of the other versions are only read
CacheAfterCity(c, w_vals, full_cache) ==
    LET r == read_documents(c)
    IN  IF ~IsOk(r) THEN full_cache
        ELSE LET city_docs == r[2]
                 cur == current_key(city_docs)
                 vs == SelectSeq(DictKeys(city_docs), LAMBDA v : v # cur)
             IN  IF cur = NoKey \/ MissingKey(c, city_docs, w_vals, full_cache)
                 THEN full_cache
                 ELSE [wd \in DOMAIN full_cache |->
                          IF wd \in set(w_vals) /\ Infinity \in set(cfg_lambda_vals)
                          THEN [full_cache[wd] EXCEPT ![<<c, cur>>] =
                                   AfterComparisons(full_cache[wd][<<c, cur>>], c, vs, 1,
                                                    full_cache[wd])]
                          ELSE full_cache[wd]]

\* the results are kept in the order in which the tasks finish
StoreResult_unordered(results, j, r) ==
    LET free == {k \in 1..Len(results) : results[k] = None}
        k == CHOOSE x \in free : \A y \in free : x <= y
    IN  [results EXCEPT ![k] = Some(r)]

\* run.py 152: pool.starmap returns the results in the order of the tasks
StoreResult(results, j, r) == [results EXCEPT ![j] = Some(r)]

\* the results of process_city are taken as they arrive (imap_unordered)
StoreMapResult_unordered(results, j, r) ==
    LET free == {k \in 1..Len(results) : results[k] = None}
        k == CHOOSE x \in free : \A y \in free : x <= y
    IN  [results EXCEPT ![k] = Some(r)]

\* run.py 162: pool.map returns the results in the order of the tasks
StoreMapResult(results, j, r) == [results EXCEPT ![j] = Some(r)]

\* the last document of the batch is left out: range(len(doc_keys) - 1)
KeyedResults_droplast(doc_keys, results) ==
    [k \in {doc_keys[j] : j \in 1..(Len(doc_keys) - 1)} |->
        LET js == {j \in 1..(Len(doc_keys) - 1) : doc_keys[j] = k}
            j == CHOOSE x \in js : \A y \in js : y <= x
        IN  results[j][1]]

\* run.py 154-155: {doc_keys[j]: results[j] for j in range(len(doc_keys))}
KeyedResults(doc_keys, results) ==
    [k \in set(doc_keys) |->
        LET js == {j \in 1..Len(doc_keys) : doc_keys[j] = k}
            j == CHOOSE x \in js : \A y \in js : y <= x
        IN  results[j][1]]

\* d[k] = v on a dict kept as a function
DictSet(d, k, v) == [x \in (DOMAIN d) \cup {k} |-> IF x = k THEN v ELSE d[x]]

\* the else branch is missing: a city without data is dropped
RECURSIVE CollectResults_noskip(_, _, _, _)
CollectResults_noskip(results, j, all, skipped) ==
    IF j > Len(results) THEN <<all, skipped>>
    ELSE LET city == results[j][1][2][1]
             data == results[j][1][2][2]
         IN  IF data # None
             THEN CollectResults_noskip(results, j + 1, DictSet(all, city, data[1]),
                                        skipped)
             ELSE CollectResults_noskip(results, j + 1, all, skipped)

\* run.py 164-169: the results of one batch go to all_results and skipped_cities
RECURSIVE CollectResults(_, _, _, _)
CollectResults(results, j, all, skipped) ==
    IF j > Len(results) THEN <<all, skipped>>
    ELSE LET city == results[j][1][2][1]
             data == results[j][1][2][2]
         IN  IF data # None
             THEN CollectResults(results, j + 1, DictSet(all, city, data[1]), skipped)
             ELSE CollectResults(results, j + 1, all, Append(skipped, city))

\* the configuration of the model run: W_VALS, LAMBDA_VALS (run.py 12-13)
ModelWVals == <<1, 2>>
ModelLambdaVals == <<1, 2, Infinity>>

\* the batch sizes of the model runs: from one city per batch to a batch
\* larger than the corpus
BatchSizes == 1..(NumCities + 1)

InitMain ==
    /\ pc = "start"
    /\ city_batches = <<>>
    /\ bi = 0
    /\ ci = 0
    /\ batch_docs = <<>>
    /\ cache = <<>>
    /\ wi = 0
    /\ task_status = <<>>
    /\ task_results = <<>>
    /\ all_results = <<>>
    /\ skipped_cities = <<>>
    /\ worker_cache = <<>>
    /\ IdleFp
    /\ IdleSel
    /\ IdleSim
    /\ IdleDoc

\* a run with a valid configuration on a readable corpus
Init ==
    /\ corpus \in Corpora(MaxDocs)
    /\ unreadable = {}
    /\ cfg_w_vals = ModelWVals
    /\ cfg_lambda_vals = ModelLambdaVals
    /\ cfg_batch_size \in BatchSizes
    /\ num_workers \in {1, MaxWorkers}
    /\ InitMain

nonMain == <<fpVars, selVars, simVars, envVars, docVars>>

\* the directories of CORPUS_DIR (run.py 127)
city_dirs == [i \in 1..Len(corpus) |-> i]

\* batch_docs is created once, before the loop, and keeps the earlier batches
NewBatchDocs_kept == batch_docs

\* run.py 140: batch_docs = {}
NewBatchDocs == <<>>

\* the cache is created once, before the loop, and keeps the earlier batches
NewBatchCache_kept == cache

\* run.py 147: batch_fingerprints_cache = {}
NewBatchCache == <<>>

\* the comparison is inside the loop over the widths: it starts after the
\* first width
WidthsLeft_onlyfirst == wi <= Min(1, Len(cfg_w_vals))

\* run.py 148: the loop over W_VALS has a width left
WidthsLeft == wi <= Len(cfg_w_vals)

\* every task of the pool is done: starmap and map return
AllTasksDone == \A j \in DOMAIN task_status : task_status[j] = "done"

\* run.py 125-135: the batches are cut; range() raises for a step of 0
StartMain ==
    /\ pc = "start"
    /\ IF cfg_batch_size = 0
       THEN pc' = "crashed" /\ UNCHANGED city_batches
       ELSE /\ city_batches' = MakeBatches(city_dirs, cfg_batch_size)
            /\ pc' = "loop"
    /\ UNCHANGED <<bi, ci, batch_docs, cache, wi, task_status, task_results,
                   all_results, skipped_cities, nonMain, worker_cache>>

\* run.py 137-140: the next batch, batch_docs = {}; or the loop ends
NextBatch ==
    /\ pc = "loop"
    /\ IF bi = Len(city_batches)
       THEN pc' = "done" /\ UNCHANGED <<bi, ci, batch_docs>>
       ELSE /\ bi' = bi + 1
            /\ ci' = 1
            /\ batch_docs' = NewBatchDocs
            /\ pc' = "collect"
    /\ UNCHANGED <<city_batches, cache, wi, task_status, task_results,
                   all_results, skipped_cities, nonMain, worker_cache>>

\* run.py 141-145: the documents of one city of the batch are read into batch_docs
CollectCity ==
    /\ pc = "collect"
    /\ LET c == city_batches[bi][ci]
           r == read_documents(c)
       IN  IF ~IsOk(r)
           THEN pc' = "crashed" /\ UNCHANGED <<ci, batch_docs>>
           ELSE /\ batch_docs' = batch_docs \o
                      [k \in 1..Len(DictKeys(r[2])) |->
                          <<<<c, DictKeys(r[2])[k]>>, r[2][DictKeys(r[2])[k]]>>]
                /\ ci' = ci + 1
                /\ pc' = IF ci = Len(city_batches[bi]) THEN "newcache" ELSE "collect"
    /\ UNCHANGED <<city_batches, bi, cache, wi, task_status, task_results,
                   all_results, skipped_cities, nonMain, worker_cache>>

\* run.py 147: batch_fingerprints_cache = {}
NewCache ==
    /\ pc = "newcache"
    /\ cache' = NewBatchCache
    /\ wi' = 1
    /\ pc' = "fp_submit"
    /\ UNCHANGED <<city_batches, bi, ci, batch_docs, task_status, task_results,
                   all_results, skipped_cities, nonMain, worker_cache>>

\* run.py 148-152: the tasks (text, w) of the next width go to a new pool; after
\* the last width the tasks of process_city do (run.py 160-162)
SubmitTasks ==
    /\ pc = "fp_submit"
    /\ LET n == IF WidthsLeft THEN Len(batch_docs)
                ELSE Len(city_batches[bi])
       IN  /\ task_status' = [j \in 1..n |-> "pending"]
           /\ task_results' = [j \in 1..n |-> None]
           /\ worker_cache' = [j \in 1..n |-> None]
    /\ pc' = IF WidthsLeft THEN "fp_pool" ELSE "cmp_pool"
    /\ UNCHANGED <<city_batches, bi, ci, batch_docs, cache, wi,
                   all_results, skipped_cities, nonMain>>

\* a free worker process of the pool takes the next task of the task queue
StartTask(j) ==
    /\ pc \in {"fp_pool", "cmp_pool"}
    /\ task_status[j] = "pending"
    /\ \A k \in 1..(j - 1) : task_status[k] # "pending"
    /\ Cardinality({k \in DOMAIN task_status : task_status[k] = "running"}) < num_workers
    /\ task_status' = [task_status EXCEPT ![j] = "running"]
    /\ UNCHANGED <<pc, city_batches, bi, ci, batch_docs, cache, wi, task_results,
                   all_results, skipped_cities, nonMain, worker_cache>>

\* a worker finishes generate_fingerprint(text, w) for the jth document
FinishFingerprint(j) ==
    /\ pc = "fp_pool"
    /\ task_status[j] = "running"
    /\ task_status' = [task_status EXCEPT ![j] = "done"]
    /\ task_results' = StoreResult(task_results, j,
                           generate_fingerprint(batch_docs[j][2], cfg_w_vals[wi]))
    /\ UNCHANGED <<pc, city_batches, bi, ci, batch_docs, cache, wi,
                   all_results, skipped_cities, nonMain, worker_cache>>

\* run.py 152-155: starmap returns when every task is done; the results are
\* keyed by doc_keys and stored for the width
JoinFingerprints ==
    /\ pc = "fp_pool"
    /\ AllTasksDone
    /\ cache' = DictSet(cache, cfg_w_vals[wi],
                        KeyedResults([j \in 1..Len(batch_docs) |-> batch_docs[j][1]],
                                     task_results))
    /\ wi' = wi + 1
    /\ pc' = "fp_submit"
    /\ UNCHANGED <<city_batches, bi, ci, batch_docs, task_status, task_results,
                   all_results, skipped_cities, nonMain, worker_cache>>

\* a worker finishes process_city for the jth city of the batch
FinishCompare(j) ==
    /\ pc = "cmp_pool"
    /\ task_status[j] = "running"
    /\ task_status' = [task_status EXCEPT ![j] = "done"]
    /\ task_results' = StoreMapResult(task_results, j,
                           process_city(city_batches[bi][j], cfg_w_vals, cache))
    /\ worker_cache' = [worker_cache EXCEPT
           ![j] = Some(CacheAfterCity(city_batches[bi][j], cfg_w_vals, cache))]
    /\ UNCHANGED <<pc, city_batches, bi, ci, batch_docs, cache, wi,
                   all_results, skipped_cities, nonMain>>

\* run.py 162-169: map returns when every task is done, or raises what a task
\* raised; the results go to all_results and skipped_cities
JoinCompare ==
    /\ pc = "cmp_pool"
    /\ AllTasksDone
    /\ IF \E j \in DOMAIN task_results : ~IsOk(task_results[j][1])
       THEN pc' = "crashed" /\ UNCHANGED <<all_results, skipped_cities>>
       ELSE /\ all_results' =
                   CollectResults(task_results, 1, all_results, skipped_cities)[1]
            /\ skipped_cities' =
                   CollectResults(task_results, 1, all_results, skipped_cities)[2]
            /\ pc' = "loop"
    /\ UNCHANGED <<city_batches, bi, ci, batch_docs, cache, wi, task_status,
                   task_results, nonMain, worker_cache>>

Next ==
    \/ StartMain
    \/ NextBatch
    \/ CollectCity
    \/ NewCache
    \/ SubmitTasks
    \/ \E j \in DOMAIN task_status : StartTask(j)
    \/ \E j \in DOMAIN task_status : FinishFingerprint(j)
    \/ JoinFingerprints
    \/ \E j \in DOMAIN task_status : FinishCompare(j)
    \/ JoinCompare

Spec == Init /\ [][Next]_vars

\* the same runs under fair execution: a step that can be taken is taken in
\* the end: the main process goes on with its next statement, a free worker
\* takes the next task, a running task finishes.  The tasks of a pool are
\* finitely many, so no task stalls forever.
Fairness == WF_vars(Next)

\* the corpora whose cities have each a historical version and, or not, the
\* reference: what a run does next does not depend on the texts
FairCorpora ==
    {cp \in Corpora(MaxDocs) :
        \A c \in DOMAIN cp : DOMAIN cp[c] \in {{"C-1"}, {"C", "C-1"}}}

InitFair ==
    /\ corpus \in FairCorpora
    /\ unreadable = {}
    /\ cfg_w_vals = ModelWVals
    /\ cfg_lambda_vals = ModelLambdaVals
    /\ cfg_batch_size \in BatchSizes
    /\ num_workers \in {1, MaxWorkers}
    /\ InitMain

SpecFair == InitFair /\ [][Next]_vars /\ Fairness

\* a run with a valid configuration on a corpus with one unreadable file
InitIO ==
    /\ corpus \in Corpora(MaxDocs)
    /\ unreadable \in {{k} : k \in DocKeys(corpus)}
    /\ cfg_w_vals = ModelWVals
    /\ cfg_lambda_vals = ModelLambdaVals
    /\ cfg_batch_size \in BatchSizes
    /\ num_workers \in {1, MaxWorkers}
    /\ InitMain

SpecIO == InitIO /\ [][Next]_vars

\* a run on a readable corpus with any configuration, valid or not: the
\* constants of run.py 12-14 are used as they are written
InitCfg ==
    /\ corpus \in Corpora(MaxDocs)
    /\ unreadable = {}
    /\ cfg_w_vals \in {ModelWVals, <<0>>}
    /\ cfg_lambda_vals \in {ModelLambdaVals, <<0>>, <<-2>>}
    /\ cfg_batch_size \in {-1, 0} \cup BatchSizes
    /\ num_workers \in {1, MaxWorkers}
    /\ InitMain

SpecCfg == InitCfg /\ [][Next]_vars

\* the 0-based start indices of the full windows of a token sequence
FullWindows(tokens, width) == 0..(Len(tokens) - width)

\* the window of width tokens that starts at the 0-based index i
Window(tokens, width, i) == SubSeq(tokens, i + 1, i + width)

\* C1: a text with fewer than w whitespace-separated tokens (the empty text
\* included) has the empty fingerprint: every call on it returned the empty set.
C1_ShortTextEmpty ==
    Len(split(text)) < w =>
        /\ fp_first # None => fp_first[2] = {}
        /\ fp_last # None => fp_last[2] = {}

\* a call on a text that has tokens, but fewer than w, has returned
C1_Witness ==
    /\ fp_last # None
    /\ split(text) # <<>>
    /\ Len(split(text)) < w

\* C2: for a text of T >= w tokens the fingerprint is exactly the set of the
\* hashes of its T - w + 1 full windows joined by one space, repeated windows
\* collapse, and its size is the number of distinct windows ("a b c a b c"
\* with w = 2 has exactly 3 elements).
C2_ExactWindows ==
    LET tokens == split(text)
    IN  (fp_last # None /\ Len(tokens) >= w) =>
            /\ fp_last[2] =
                   {Md5Int(join(Window(tokens, w, i))) : i \in FullWindows(tokens, w)}
            /\ Cardinality(fp_last[2]) =
                   Cardinality({Window(tokens, w, i) : i \in FullWindows(tokens, w)})
            /\ (text = ExampleText /\ w = 2) => Cardinality(fp_last[2]) = 3

\* a call on a text with a repeated window has returned
C2_Witness ==
    LET tokens == split(text)
    IN  /\ fp_last # None
        /\ Len(tokens) >= w
        /\ \E i, j \in FullWindows(tokens, w) :
               i # j /\ Window(tokens, w, i) = Window(tokens, w, j)
        /\ Cardinality(fp_last[2]) >= 2

\* the call on the example text "a b c a b c" with w = 2 has returned
C2_ExampleReached ==
    text = ExampleText /\ w = 2 /\ fp_last # None

\* C3: two calls of generate_fingerprint on the same (text, w) return equal
\* sets, in whichever worker process each runs and whatever call on another
\* width ran in between.
C3_Deterministic ==
    (fp_first # None /\ fp_last # None) => fp_first[2] = fp_last[2]

\* two calls on the same input ran in processes with different hash seeds, with a
\* call on another width made as well, and returned a non-empty fingerprint
C3_Witness ==
    /\ fp_first # None
    /\ fp_last # None
    /\ fp_first[1] # fp_last[1]
    /\ fp_other # None
    /\ fp_last[2] # {}

\* C4: with the sentinel -1 select_fingerprint returns the fingerprint unchanged;
\* with a bounded n >= 0 it returns the n smallest elements (all when there are
\* at most n): a subset of min(n, |F|) elements, each smaller than every element
\* left out; select({1,2,3,4,5}, 2) = {1,2}.
C4_SmallestOrAll ==
    sk1 # None =>
        /\ lam1 = Infinity => sk1[1] = fingerprint
        /\ lam1 >= 0 =>
              /\ sk1[1] \subseteq fingerprint
              /\ Cardinality(sk1[1]) = Min(lam1, Cardinality(fingerprint))
              /\ \A x \in sk1[1] : \A y \in fingerprint \ sk1[1] : x < y
        /\ (fingerprint = 1..5 /\ lam1 = 2) => sk1[1] = {1, 2}

\* a bounded selection that leaves elements out and an unbounded one have returned
C4_Witness ==
    /\ sk1 # None
    /\ sk2 # None
    /\ lam1 >= 1
    /\ lam1 < Cardinality(fingerprint)
    /\ lam2 = Infinity
    /\ sk2[1] = fingerprint

\* C5: for 0 <= lam1 <= lam2 the sketch of size lam1 is a subset of the sketch
\* of size lam2, which is a subset of the fingerprint.
C5_Nested ==
    (sk1 # None /\ sk2 # None /\ 0 <= lam1 /\ lam1 <= lam2) =>
        /\ sk1[1] \subseteq sk2[1]
        /\ sk2[1] \subseteq fingerprint

\* two sketches of different sizes, both proper and non-empty, have been built
C5_Witness ==
    /\ sk1 # None
    /\ sk2 # None
    /\ 0 < lam1
    /\ lam1 < lam2
    /\ lam2 < Cardinality(fingerprint)
    /\ sk1[1] # sk2[1]

\* C6: a sketch of bounded size lam >= 0 has exactly min(lam, |F|) elements,
\* so never more than lam.
C6_SketchSize ==
    /\ (sk1 # None /\ lam1 >= 0) =>
          /\ Cardinality(sk1[1]) = Min(lam1, Cardinality(fingerprint))
          /\ Cardinality(sk1[1]) <= lam1
    /\ (sk2 # None /\ lam2 >= 0) =>
          /\ Cardinality(sk2[1]) = Min(lam2, Cardinality(fingerprint))
          /\ Cardinality(sk2[1]) <= lam2

\* one sketch was cut to its size and another size exceeds the fingerprint
C6_Witness ==
    /\ sk1 # None
    /\ sk2 # None
    /\ 0 < lam1
    /\ lam1 < Cardinality(fingerprint)
    /\ lam2 > Cardinality(fingerprint)
    /\ fingerprint # {}

\* seq1 is a prefix of seq2
IsPrefix(seq1, seq2) ==
    /\ Len(seq1) <= Len(seq2)
    /\ \A i \in 1..Len(seq1) : seq1[i] = seq2[i]

\* C7: for 0 <= lam1 <= lam2 the ascending sequence of the sketch of size lam1
\* is a prefix of that of the sketch of size lam2, selecting lam1 from the
\* sketch of size lam2 gives the sketch of size lam1, and selecting twice with
\* the same size changes nothing.
C7_Prefix ==
    (sk1 # None /\ sk2 # None /\ 0 <= lam1 /\ lam1 <= lam2) =>
        /\ IsPrefix(sorted(sk1[1]), sorted(sk2[1]))
        /\ sk21 # None =>
              /\ sk21[1] = sk1[1]
              /\ lam1 = lam2 => sk21[1] = sk2[1]

\* a sketch has been selected again with a smaller size, and it lost elements
C7_Witness ==
    /\ sk1 # None
    /\ sk2 # None
    /\ sk21 # None
    /\ 0 < lam1
    /\ lam1 < lam2
    /\ lam2 < Cardinality(fingerprint)
    /\ sk21[1] # sk2[1]

\* a sketch has been selected again with its own size
C7_IdempotentReached ==
    /\ sk2 # None
    /\ sk21 # None
    /\ lam1 = lam2
    /\ 0 < lam1
    /\ lam1 < Cardinality(fingerprint)

\* r is the float the rules give for the sets a and b: 1.0 when both are empty,
\* 0.0 when exactly one is, |a \cap b| / |a \cup b| otherwise
IsJaccard(r, a, b) ==
    IF a = {} /\ b = {} THEN r = One
    ELSE IF a = {} \/ b = {} THEN r = Zero
    ELSE /\ r[1] = "float"
         /\ r[3] > 0
         /\ r[2] * Cardinality(a \cup b) = r[3] * Cardinality(a \cap b)

\* C8: each implementation of calculate_similarity returns 1.0 when both sets
\* are empty, 0.0 when exactly one is (whichever argument), and
\* |A \cap B| / |A \cup B| otherwise; {1,2,3} and {2,3,4} give 0.5.
C8_JaccardRules ==
    /\ sim_ab # None => IsJaccard(sim_ab[1], first, second)
    /\ sim_ba # None => IsJaccard(sim_ba[1], second, first)
    /\ dsim_ab # None => IsJaccard(dsim_ab[1], first, second)
    /\ dsim_ba # None => IsJaccard(dsim_ba[1], second, first)
    /\ (first = {1, 2, 3} /\ second = {2, 3, 4}) =>
          /\ sim_ab # None => sim_ab[1] = <<"float", 1, 2>>
          /\ dsim_ab # None => dsim_ab[1] = <<"float", 1, 2>>

\* both implementations have been called with an empty first set and a
\* non-empty second set, and in the swapped order
C8_Witness ==
    /\ first = {}
    /\ second # {}
    /\ sim_ab # None
    /\ sim_ba # None
    /\ dsim_ab # None
    /\ dsim_ba # None

\* both implementations have been called on overlapping, different sets
C8_OverlapReached ==
    /\ first \cap second # {}
    /\ first # second
    /\ sim_ab # None
    /\ dsim_ab # None

\* C9: calculate_similarity(A, B) = calculate_similarity(B, A) for all sets,
\* empty ones included, in each implementation.
C9_Symmetric ==
    /\ (sim_ab # None /\ sim_ba # None) => sim_ab = sim_ba
    /\ (dsim_ab # None /\ dsim_ba # None) => dsim_ab = dsim_ba

\* both orders have been computed by both implementations on sets of different
\* sizes that overlap
C9_Witness ==
    /\ sim_ab # None
    /\ sim_ba # None
    /\ dsim_ab # None
    /\ dsim_ba # None
    /\ Cardinality(first) < Cardinality(second)
    /\ first \cap second # {}

\* r is a float in [0, 1], not a ZeroDivisionError
InUnitInterval(r) ==
    /\ r[1] = "float"
    /\ r[3] > 0
    /\ 0 <= r[2]
    /\ r[2] <= r[3]

\* C10: calculate_similarity always returns a value in [0, 1]; it never
\* divides by zero and never exceeds 1.
C10_UnitInterval ==
    /\ sim_ab # None => InUnitInterval(sim_ab[1])
    /\ sim_ba # None => InUnitInterval(sim_ba[1])
    /\ dsim_ab # None => InUnitInterval(dsim_ab[1])
    /\ dsim_ba # None => InUnitInterval(dsim_ba[1])

\* the call on two empty sets, where the union is empty, has returned
C10_Witness ==
    /\ first = {}
    /\ second = {}
    /\ sim_ab # None
    /\ dsim_ab # None

\* a call has returned a value strictly between 0 and 1
C10_InteriorReached ==
    /\ sim_ab # None
    /\ 0 < sim_ab[1][2]
    /\ sim_ab[1][2] < sim_ab[1][3]

\* ---- the claims about a run of main ----

\* the cities of the corpus
Cities == DOMAIN corpus

\* the version a city is compared against: "C", else "C-0", else none
ExpectedReference(c) ==
    IF "C" \in DOMAIN corpus[c] THEN "C"
    ELSE IF "C-0" \in DOMAIN corpus[c] THEN "C-0"
    ELSE NoKey

\* generate_fingerprint of every text of the corpora at every width of a run,
\* computed once
FingerprintTable ==
    [t \in {TextABA, TextABB, TextBA} |->
        [wd \in set(ModelWVals) |-> generate_fingerprint(t, wd)]]

\* the fingerprint of the document of version v of city c at width wd
DocFingerprint(c, v, wd) == FingerprintTable[corpus[c][v]][wd]

\* the records of a city, one tuple for each innermost entry of its results
Records(c) ==
    {<<c, wd, lam, v, all_results[c][wd][lam][v]>> :
        <<wd, lam, v>> \in
            {t \in (DOMAIN all_results[c]) \X set(cfg_lambda_vals) \X Versions :
                /\ t[2] \in DOMAIN all_results[c][t[1]]
                /\ t[3] \in DOMAIN all_results[c][t[1]][t[2]]}}

\* C11: the similarity of a set with itself is 1.0, and so a historical
\* version whose fingerprint equals the reference fingerprint at a width has
\* similarity 1.0 at that width for every sketch size.  The first part does
\* not depend on the state and is evaluated once, where main starts.
C11_SelfSimilarity ==
    /\ pc = "start" => \A A \in SUBSET Elems : calculate_similarity(A, A) = One
    /\ \A c \in DOMAIN all_results :
           \A rec \in Records(c) :
               DocFingerprint(c, rec[4], rec[2]) =
                   DocFingerprint(c, ExpectedReference(c), rec[2])
               => rec[5] = One

\* a finished run holds records of a historical version with the reference's
\* fingerprint, of more hashes than the smallest sketch size, and a record of
\* another version whose similarity is below 1
C11_Witness ==
    /\ pc = "done"
    /\ \E c \in DOMAIN all_results :
           /\ \E rec \in Records(c) :
                  /\ DocFingerprint(c, rec[4], rec[2]) =
                         DocFingerprint(c, ExpectedReference(c), rec[2])
                  /\ Cardinality(DocFingerprint(c, rec[4], rec[2])) > 1
                  /\ rec[3] = 1
                  /\ rec[5] = One
           /\ \E rec \in Records(c) : rec[5] # One

\* C12: the reference version of a city is "C" when it exists, else "C-0",
\* else the city is unresolved; every other version, "C-0" included when "C"
\* exists, is an ordinary historical version with records.
C12_ReferenceResolution ==
    /\ \A c \in DOMAIN all_results :
           /\ ExpectedReference(c) # NoKey
           /\ \A wd \in DOMAIN all_results[c] :
                  \A lam \in DOMAIN all_results[c][wd] :
                      DOMAIN all_results[c][wd][lam] =
                          (DOMAIN corpus[c]) \ {ExpectedReference(c)}
    /\ \A i \in DOMAIN skipped_cities :
           ExpectedReference(skipped_cities[i]) = NoKey

\* a finished run holds records of "C-0" for a city that has both "C" and
\* "C-0", and records for a city whose reference is "C-0"
C12_Witness ==
    /\ pc = "done"
    /\ \E c \in DOMAIN all_results :
           /\ {"C", "C-0"} \subseteq DOMAIN corpus[c]
           /\ \E rec \in Records(c) : rec[4] = "C-0"
    /\ \E c \in DOMAIN all_results :
           /\ "C" \notin DOMAIN corpus[c]
           /\ \E rec \in Records(c) : rec[4] = "C-1"

\* C13: a city without reference version contributes no record and is named
\* in the skip list; the other cities of its batch and of later batches are
\* still processed, and the run does not abort.
C13_UnresolvedSkipped ==
    /\ pc # "crashed"
    /\ \A c \in Cities :
           ExpectedReference(c) = NoKey => c \notin DOMAIN all_results
    /\ pc = "done" =>
           \A c \in Cities :
               IF ExpectedReference(c) = NoKey
               THEN \E i \in DOMAIN skipped_cities : skipped_cities[i] = c
               ELSE c \in DOMAIN all_results

\* a finished run has skipped the first city, which has a file but no
\* reference, and holds records of the second city
C13_Witness ==
    /\ pc = "done"
    /\ corpus[1] # <<>>
    /\ skipped_cities = <<1>>
    /\ 2 \in DOMAIN all_results
    /\ Records(2) # {}

\* the skipped city and the processed one were in the same batch
C13_SameBatchReached ==
    /\ C13_Witness
    /\ Len(city_batches) = 1

\* C14: a resolved city has exactly one record for each combination of
\* another version, width and sketch size: none is missing, none is
\* duplicated, and none compares the reference with itself.
C14_OneRecordEach ==
    \A c \in DOMAIN all_results :
        /\ DOMAIN all_results[c] = set(cfg_w_vals)
        /\ \A wd \in DOMAIN all_results[c] :
               /\ DOMAIN all_results[c][wd] = set(cfg_lambda_vals)
               /\ \A lam \in DOMAIN all_results[c][wd] :
                      /\ ExpectedReference(c) \notin DOMAIN all_results[c][wd][lam]
                      /\ DOMAIN all_results[c][wd][lam] \cup {ExpectedReference(c)} =
                             DOMAIN corpus[c]
        /\ Cardinality(Records(c)) =
               (Cardinality(DOMAIN corpus[c]) - 1) * Cardinality(set(cfg_w_vals))
                   * Cardinality(set(cfg_lambda_vals))

\* a finished run holds the records of a city with three versions
C14_Witness ==
    /\ pc = "done"
    /\ \E c \in DOMAIN all_results :
           /\ Cardinality(DOMAIN corpus[c]) = 3
           /\ Cardinality(Records(c)) = 2 * Len(cfg_w_vals) * Len(cfg_lambda_vals)

\* the records of city c computed from the whole corpus, without batches
ExpectedRecords(c) ==
    [wd \in set(cfg_w_vals) |->
        [lam \in set(cfg_lambda_vals) |->
            [v \in (DOMAIN corpus[c]) \ {ExpectedReference(c)} |->
                calculate_similarity(
                    select_fingerprint(DocFingerprint(c, ExpectedReference(c), wd), lam),
                    select_fingerprint(DocFingerprint(c, v, wd), lam))]]]

\* C15: the records of a run do not depend on the batch size: whatever the
\* batches, a finished run holds the records computed from the whole corpus.
C15_BatchIsolation ==
    pc = "done" =>
        /\ all_results =
               [c \in {x \in Cities : ExpectedReference(x) # NoKey} |-> ExpectedRecords(c)]
        /\ set(skipped_cities) = {x \in Cities : ExpectedReference(x) = NoKey}

\* a run of two batches has finished with records of both cities
C15_Witness ==
    /\ pc = "done"
    /\ Len(city_batches) = 2
    /\ \A c \in Cities : c \in DOMAIN all_results /\ Records(c) # {}

\* a run whose only batch is partly filled has finished with records
C15_PartialBatchReached ==
    /\ pc = "done"
    /\ Len(city_batches) = 1
    /\ cfg_batch_size > Len(city_batches[1])
    /\ \A c \in Cities : c \in DOMAIN all_results /\ Records(c) # {}

\* the cities of the batch in progress
CurrentBatch == IF bi \in DOMAIN city_batches THEN set(city_batches[bi]) ELSE {}

\* the cities whose result, records or skip, has been collected
Collected == (DOMAIN all_results) \cup set(skipped_cities)

\* the tasks of the pool are the tasks of the batch in progress: one for each
\* document of its cities, or one for each of its cities
InFlightOfCurrentBatch ==
    /\ pc = "fp_pool" =>
           /\ Len(task_status) = Len(batch_docs)
           /\ \A j \in DOMAIN batch_docs : batch_docs[j][1][1] \in CurrentBatch
    /\ pc = "cmp_pool" => Len(task_status) = Len(city_batches[bi])

\* the step to another batch is the step to the next one, taken when no task
\* is pending or running and every city of the batch has been collected
BatchStep ==
    bi' # bi =>
        /\ bi' = bi + 1
        /\ pc = "loop"
        /\ AllTasksDone
        /\ CurrentBatch \subseteq Collected
        /\ \A b \in 1..bi : set(city_batches[b]) \subseteq Collected

\* C16: the batches run strictly one after the other: a step of batch N+1
\* happens only when every task of batch N is done and its results are
\* collected, and the tasks of two batches are never in the pool together.
C16_SequentialBatches == [][BatchStep /\ InFlightOfCurrentBatch']_vars

\* a comparison task of the second batch is running, and the first batch,
\* which had documents, has been collected
C16_Witness ==
    /\ bi = 2
    /\ pc = "cmp_pool"
    /\ \E j \in DOMAIN task_status : task_status[j] = "running"
    /\ set(city_batches[1]) \subseteq DOMAIN all_results
    /\ \A c \in set(city_batches[1]) : Records(c) # {}

\* the cities that have a fingerprint in the cache
CacheCities == {k[1] : k \in UNION {DOMAIN cache[wd] : wd \in DOMAIN cache}}

C17_StaleDuringCollectReached ==
    /\ bi = 2
    /\ pc = "collect"
    /\ CacheCities # {}
    /\ CacheCities \subseteq set(city_batches[1])

\* C18, as the specification states it: a file that cannot be read affects
\* only its own document; the run never crashes, and the cities without
\* unreadable file get their records.
C18_IOFailureIsolated ==
    /\ pc # "crashed"
    /\ pc = "done" =>
           \A c \in Cities :
               (ExpectedReference(c) # NoKey /\ \A k \in unreadable : k[1] # c)
               => c \in DOMAIN all_results

\* the configuration is valid: positive widths and batch size, sketch sizes
\* positive or the sentinel
ValidConfiguration ==
    /\ \A i \in DOMAIN cfg_w_vals : cfg_w_vals[i] > 0
    /\ \A i \in DOMAIN cfg_lambda_vals :
           cfg_lambda_vals[i] > 0 \/ cfg_lambda_vals[i] = Infinity
    /\ cfg_batch_size > 0
    /\ num_workers > 0

\* C19, as the specification states it: with an invalid configuration the run
\* fails before the COLLECT phase of any batch: no document is read, no
\* fingerprint is computed, no record is emitted, and the run does not end
\* as a completed one.
C19_FailFast ==
    ~ValidConfiguration =>
        /\ pc \in {"start", "crashed"}
        /\ bi = 0
        /\ batch_docs = <<>>
        /\ cache = <<>>
        /\ all_results = <<>>

\* C20: after the FINGERPRINT phase of a width, the cache maps every document
\* key of the batch to the fingerprint of that very document at that width,
\* in whatever order the tasks finished.
C20_KeyAlignment ==
    /\ \A wd \in DOMAIN cache :
           \A k \in DOMAIN cache[wd] :
               cache[wd][k] = DocFingerprint(k[1], k[2], wd)
    /\ pc \in {"fp_submit", "fp_pool", "cmp_pool"} =>
           /\ DOMAIN cache = {cfg_w_vals[i] : i \in 1..(wi - 1)}
           /\ \A wd \in DOMAIN cache :
                  DOMAIN cache[wd] =
                      {k \in DocKeys(corpus) : k[1] \in CurrentBatch}

\* the cache of a batch is complete and holds, at one width, two documents
\* with different fingerprints
C20_Witness ==
    /\ pc = "cmp_pool"
    /\ \E wd \in DOMAIN cache :
           \E k1, k2 \in DOMAIN cache[wd] : cache[wd][k1] # cache[wd][k2]

\* the second task has finished before the first, on documents whose
\* fingerprints differ
C20_OutOfOrderReached ==
    /\ pc = "fp_pool"
    /\ Len(task_status) >= 2
    /\ task_status[1] = "running"
    /\ task_status[2] = "done"
    /\ task_results[2][1] #
           generate_fingerprint(batch_docs[1][2], cfg_w_vals[wi])

\* C21: the value of the record of (city, version v, w, lambda) is
\* calculate_similarity of the lambda-sketches of the width-w fingerprints of
\* the city's reference text and of its version v: one sketch of the
\* reference, for (city, w, lambda), is used against every other version.
C21_RecordValue ==
    \A c \in DOMAIN all_results :
        \A wd \in DOMAIN all_results[c] :
            \A lam \in DOMAIN all_results[c][wd] :
                LET ref_sketch == select_fingerprint(
                        DocFingerprint(c, ExpectedReference(c), wd), lam)
                IN  \A v \in DOMAIN all_results[c][wd][lam] :
                        all_results[c][wd][lam][v] =
                            calculate_similarity(ref_sketch,
                                select_fingerprint(DocFingerprint(c, v, wd), lam))

\* a city has records of two versions against the same reference sketch, one
\* of them 1.0 and the other strictly between 0 and 1
C21_Witness ==
    \E c \in DOMAIN all_results :
        \E r1, r2 \in Records(c) :
            /\ r1[2] = r2[2]
            /\ r1[3] = r2[3]
            /\ r1[4] # r2[4]
            /\ r1[5] = One
            /\ r2[5] \notin {One, Zero}

\* the keys of the documents of the batch in progress
BatchDocKeys == {k \in DocKeys(corpus) : k[1] \in CurrentBatch}

\* the cache holds, for width wd, a fingerprint of every document of the batch
CacheFilled(ch, wd) == wd \in DOMAIN ch /\ DOMAIN ch[wd] = BatchDocKeys

\* the order of the phases of a batch: COLLECT, then FINGERPRINT width by
\* width, then COMPARE, then the next batch or the end
PhaseOrder ==
    {<<"start", "loop">>, <<"loop", "collect">>, <<"loop", "done">>,
     <<"collect", "newcache">>, <<"newcache", "fp_submit">>,
     <<"fp_submit", "fp_pool">>, <<"fp_pool", "fp_submit">>,
     <<"fp_submit", "cmp_pool">>, <<"cmp_pool", "loop">>}

\* a step keeps the order of the phases and joins each pool; COMPARE starts on
\* a cache filled for every width, which is discarded only by a later batch
PhaseStep ==
    /\ pc' # pc => <<pc, pc'>> \in PhaseOrder
    /\ (pc \in {"fp_pool", "cmp_pool"} /\ pc' # pc) => AllTasksDone
    /\ (pc = "fp_pool" /\ pc' # pc) => CacheFilled(cache', cfg_w_vals[wi])
    /\ pc' = "cmp_pool" =>
           \A i \in DOMAIN cfg_w_vals : CacheFilled(cache', cfg_w_vals[i])
    /\ (cache # <<>> /\ cache' = <<>>) => (pc = "newcache" /\ bi > 1)

\* C22: in a batch the phases run in the order COLLECT, FINGERPRINT, COMPARE,
\* RELEASE, each ended by a join: no comparison task starts before every
\* fingerprint task of the batch, for every width, is done and stored.
C22_PhaseOrder == [][PhaseStep]_vars

\* a comparison task runs on a cache that holds, for each of two widths, the
\* fingerprints of the two or more documents of the batch
C22_Witness ==
    /\ pc = "cmp_pool"
    /\ \E j \in DOMAIN task_status : task_status[j] = "running"
    /\ Len(cfg_w_vals) >= 2
    /\ Cardinality(BatchDocKeys) >= 2
    /\ \A i \in DOMAIN cfg_w_vals : CacheFilled(cache, cfg_w_vals[i])

\* the cities of the batches 1..n, in the order of the corpus
RECURSIVE CitiesThrough(_)
CitiesThrough(n) ==
    IF n = 0 THEN <<>> ELSE CitiesThrough(n - 1) \o city_batches[n]

\* what process_city returns for city c when it runs alone
SequentialCity(c) ==
    Ok(<<c, IF ExpectedReference(c) = NoKey THEN None
            ELSE Some(ExpectedRecords(c))>>)

\* the results and the skip list of a sequential run over the cities cs
SequentialResults(cs) ==
    [c \in {x \in set(cs) : ExpectedReference(x) # NoKey} |-> ExpectedRecords(c)]

SequentialSkipped(cs) == SelectSeq(cs, LAMBDA c : ExpectedReference(c) = NoKey)

\* C23: the tasks are stateless and independent: for every pool size and
\* every interleaving of the tasks of a phase, each task's result, the cache
\* after FINGERPRINT, the records and the skip list are those of a
\* sequential execution.
C23_InterleavingIndependent ==
    /\ pc = "fp_pool" =>
           \A j \in DOMAIN task_status :
               task_status[j] = "done" =>
                   task_results[j] =
                       Some(DocFingerprint(batch_docs[j][1][1], batch_docs[j][1][2],
                                           cfg_w_vals[wi]))
    /\ pc = "cmp_pool" =>
           /\ cache = [wd \in set(cfg_w_vals) |->
                          [k \in BatchDocKeys |-> DocFingerprint(k[1], k[2], wd)]]
           /\ \A j \in DOMAIN task_status :
                  task_status[j] = "done" =>
                      task_results[j] = Some(SequentialCity(city_batches[bi][j]))
    /\ pc \in {"loop", "done"} =>
           /\ all_results = SequentialResults(CitiesThrough(bi))
           /\ skipped_cities = SequentialSkipped(CitiesThrough(bi))

\* with two workers the second comparison task is done before the first,
\* after fingerprint tasks of two or more documents
C23_Witness ==
    /\ pc = "cmp_pool"
    /\ num_workers >= 2
    /\ Len(task_status) >= 2
    /\ task_status[1] = "running"
    /\ task_status[2] = "done"
    /\ Cardinality(BatchDocKeys) >= 2

\* a run of two workers has finished with two skipped cities of one batch
C23_SkipOrderReached ==
    /\ pc = "done"
    /\ num_workers >= 2
    /\ Len(city_batches) = 1
    /\ Len(skipped_cities) >= 2

\* the entries (city, version, w) of a cache
CacheEntries(ch) == {<<k[1], k[2], wd>> : <<wd, k>> \in
                        {x \in (DOMAIN ch) \X DocKeys(corpus) : x[2] \in DOMAIN ch[x[1]]}}

\* a step writes the cache only at the join of FINGERPRINT, entries it did not
\* hold; COMPARE leaves it as it is, in main and in every finished task
SingleWriterStep ==
    /\ pc = "cmp_pool" => cache' = cache
    /\ cache' # cache =>
           \/ pc = "newcache" /\ cache' = <<>>
           \/ /\ pc = "fp_pool"
              /\ CacheEntries(cache) \subseteq CacheEntries(cache')
              /\ \A wd \in DOMAIN cache : wd \in DOMAIN cache' /\ cache'[wd] = cache[wd]
              /\ CacheEntries(cache') \ CacheEntries(cache) =
                     {<<k[1], k[2], cfg_w_vals[wi]>> : k \in BatchDocKeys}
    /\ pc' = "cmp_pool" =>
           \A j \in DOMAIN worker_cache' :
               worker_cache'[j] # None => worker_cache'[j][1] = cache'

\* C24: single writer, then readers: in a batch each key (city, version, w)
\* of the cache is written once, during FINGERPRINT; during COMPARE no entry
\* is added, removed or changed, and building a sketch, also the unbounded
\* one that is the cached set itself, leaves the cached fingerprint unchanged.
C24_SingleWriterThenReaders == [][SingleWriterStep]_vars

\* a comparison task is done that compared the reference, with the unbounded
\* sketch, with a version of another fingerprint; its cache is as it was
C24_Witness ==
    /\ pc = "cmp_pool"
    /\ Infinity \in set(cfg_lambda_vals)
    /\ \E j \in DOMAIN task_status :
           /\ task_status[j] = "done"
           /\ worker_cache[j] = Some(cache)
           /\ LET c == city_batches[bi][j]
              IN  /\ ExpectedReference(c) # NoKey
                  /\ \E wd \in DOMAIN cache :
                         \E v \in DOMAIN corpus[c] :
                             ~(cache[wd][<<c, v>>] \subseteq
                                   cache[wd][<<c, ExpectedReference(c)>>])

\* the keys process_city looks up for city c: none when it has no reference
\* (run.py 100-102), else those of all the documents it has read again
Lookups(c) ==
    IF ExpectedReference(c) = NoKey THEN {}
    ELSE {<<c, v>> : v \in DOMAIN corpus[c]}

\* C25: the cache never lacks a key that COMPARE reads: every lookup
\* cache[w][(city, version)] of process_city, for the reference and for every
\* other version of the documents it reads again, finds an entry that the
\* FINGERPRINT phase of the same batch has written.
C25_NoMissingKey ==
    pc = "cmp_pool" =>
        /\ \A c \in CurrentBatch :
               \A k \in Lookups(c) :
                   \A i \in DOMAIN cfg_w_vals :
                       /\ cfg_w_vals[i] \in DOMAIN cache
                       /\ k \in DOMAIN cache[cfg_w_vals[i]]
                       /\ k \in BatchDocKeys
        /\ \A j \in DOMAIN task_results :
               task_results[j] # None => task_results[j][1] # Raise("KeyError")

\* a comparison task has returned the records of a city of three versions
C25_Witness ==
    /\ pc = "cmp_pool"
    /\ \E j \in DOMAIN task_results :
           /\ task_results[j] # None
           /\ IsOk(task_results[j][1])
           /\ Cardinality(Lookups(city_batches[bi][j])) = 3
           /\ task_results[j][1][2][2] # None

\* the documents of the cities of batch b
DocKeysOfBatch(b) == {k \in DocKeys(corpus) : k[1] \in set(city_batches[b])}

\* C26: at every point of the run the cache holds fingerprints of at most one
\* batch: never entries of two batches at once, and never more entries than
\* the documents of one batch times the configured widths.
C26_OneBatchInCache ==
    cache # <<>> =>
        \E b \in DOMAIN city_batches :
            /\ b \in {bi - 1, bi}
            /\ \A e \in CacheEntries(cache) : <<e[1], e[2]>> \in DocKeysOfBatch(b)
            /\ Cardinality(CacheEntries(cache)) <=
                   Cardinality(DocKeysOfBatch(b)) * Len(cfg_w_vals)

\* the second batch compares on a cache that holds each of its two or more
\* documents at each width, after a first batch that had documents too
C26_Witness ==
    /\ bi = 2
    /\ pc = "cmp_pool"
    /\ DocKeysOfBatch(1) # {}
    /\ Cardinality(DocKeysOfBatch(2)) >= 2
    /\ Cardinality(CacheEntries(cache)) =
           Cardinality(DocKeysOfBatch(2)) * Len(cfg_w_vals)

\* every city is in exactly one of all_results and skipped_cities, once
ExactlyOnce ==
    /\ \A c \in Cities :
           (c \in DOMAIN all_results) # (\E i \in DOMAIN skipped_cities : skipped_cities[i] = c)
    /\ \A i, k \in DOMAIN skipped_cities :
           skipped_cities[i] = skipped_cities[k] => i = k
    /\ DOMAIN all_results \subseteq Cities

\* C27: under fair execution of the tasks and without I/O failure the run
\* processes every batch and terminates, and at its end every city of the
\* corpus is in exactly one of the results and the skip list, once.
C27_Terminates ==
    <>(pc = "done" /\ bi = Len(city_batches) /\ ExactlyOnce)

\* a run of two batches and more than one worker has ended with one city in
\* the results and the other in the skip list
C27_Witness ==
    /\ pc = "done"
    /\ bi = 2
    /\ num_workers > 1
    /\ ExactlyOnce
    /\ all_results # <<>>
    /\ skipped_cities # <<>>

\* the text is words separated by single spaces: it has a word, and no space
\* at its start, at its end or after a space
SingleSpaced(t) ==
    /\ t # <<>>
    /\ t[1] # " "
    /\ t[Len(t)] # " "
    /\ \A i \in 1..(Len(t) - 1) : ~(t[i] = " " /\ t[i + 1] = " ")

\* C28, as the specification states it: generate_fingerprint of
\* document-similarity.py follows the canonical shingle contract: for every
\* text of words separated by single spaces and every w >= 1 it returns the
\* fingerprint that generate_fingerprint of run.py returns, the empty set for
\* a text of fewer than w words.
C28_DocsimCanonical ==
    (SingleSpaced(document) /\ dfp_doc # None) =>
        /\ dfp_doc[1] = generate_fingerprint(document, window_size)
        /\ dfp_run # None => dfp_doc = dfp_run
        /\ Len(split(document)) < window_size => dfp_doc[1] = {}

====
